---- MODULE Spec2Model ----
(***************************************************************************)
(* The four planar convex hull algorithms of ConvexHull.cpp (gift          *)
(* wrapping, Graham scan, monotone chain, QuickHull) and the driver that   *)
(* runs them on one point vector.                                          *)
(*                                                                         *)
(* Points have small non-negative integer coordinates.  On such values     *)
(* every float operation of ccw is exact, so ccw is modelled over the      *)
(* integers.  dist divides |cross| by len(a, b); getFarthest only compares *)
(* dist values taken for the same (a, b), so the comparison is modelled on *)
(* the numerators (see distGreater).                                       *)
(***************************************************************************)
EXTENDS Integers, Sequences, FiniteSets

\* Coordinates range over 0 .. MaxCoord; input vectors hold 3 .. MaxPoints points.
MaxCoord == 2
MaxPoints == 4

----------------------------------------------------------------------------
\* Geometry primitives

point(xIn, yIn) == [x |-> xIn, y |-> yIn]

Points == {point(xIn, yIn) : xIn \in 0 .. MaxCoord, yIn \in 0 .. MaxCoord}

ccw(a, b, c) == (b.x - a.x) * (c.y - a.y) - (b.y - a.y) * (c.x - a.x)

isLeftOf(a, b) == a.x < b.x \/ (a.x = b.x /\ a.y < b.y)

\* ccwSorter with the comparison turned round.
ccwSorter_flipped(pivot, a, b) == ccw(pivot, a, b) > 0

\* ccwSorter(pivot)(a, b)
ccwSorter(pivot, a, b) == ccw(pivot, a, b) < 0

Abs(n) == IF n < 0 THEN -n ELSE n

\* Numerator of dist(a, b, p): fabs(cross).
distNum(a, b, p) == Abs((b.x - a.x) * (a.y - p.y) - (b.y - a.y) * (a.x - p.x))

\* Square of len(a, b).
lenSq(a, b) == (b.x - a.x) * (b.x - a.x) + (b.y - a.y) * (b.y - a.y)

\* dist(a, b, p) > dist(a, b, q).  With a = b both are 0/0 = NaN and the
\* comparison is false.
distGreater(a, b, p, q) == lenSq(a, b) # 0 /\ distNum(a, b, p) > distNum(a, b, q)

\* getFarthest keeping the smaller distance.
getFarthest_nearest(a, b, v) ==
  LET idxMax[i \in 1 .. Len(v)] ==
        IF i = 1 THEN 1
        ELSE LET prev == idxMax[i - 1]
             IN IF distGreater(a, b, v[prev], v[i]) THEN i ELSE prev
  IN idxMax[Len(v)]

\* Index of the farthest point of v from segment (a, b); the first one on ties.
getFarthest(a, b, v) ==
  LET idxMax[i \in 1 .. Len(v)] ==
        IF i = 1 THEN 1
        ELSE LET prev == idxMax[i - 1]
             IN IF distGreater(a, b, v[i], v[prev]) THEN i ELSE prev
  IN idxMax[Len(v)]

----------------------------------------------------------------------------
\* Standard library algorithms, as the code uses them

\* A comparator handed to a library algorithm: the function isLeftOf, or a
\* ccwSorter object with its pivot.
isLeftOfComp == [name |-> "isLeftOf"]

ccwSorterComp(pivot) == [name |-> "ccwSorter", pivot |-> pivot]

\* The call comp(a, b).
less(comp, a, b) ==
  IF comp.name = "ccwSorter" THEN ccwSorter(comp.pivot, a, b) ELSE isLeftOf(a, b)

\* std::min_element over v[lo .. Len(v)]: index of the first smallest element.
min_element(v, lo, comp) ==
  LET smallest[i \in lo .. Len(v)] ==
        IF i = lo THEN lo
        ELSE LET prev == smallest[i - 1]
             IN IF less(comp, v[i], v[prev]) THEN i ELSE prev
  IN smallest[Len(v)]

\* std::max_element over v: index of the first largest element.
max_element(v, comp) ==
  LET largest[i \in 1 .. Len(v)] ==
        IF i = 1 THEN 1
        ELSE LET prev == largest[i - 1]
             IN IF less(comp, v[prev], v[i]) THEN i ELSE prev
  IN largest[Len(v)]

\* std::swap of two elements of v.
swap(v, i, j) == [v EXCEPT ![i] = v[j], ![j] = v[i]]

\* std::sort of v[lo .. Len(v)] by comp, by insertion.  For a strict total
\* order the result is the one sorted arrangement whatever the algorithm.
sort(v, lo, comp) ==
  LET insert(t, e) ==
        LET k == Cardinality({j \in 1 .. Len(t) : ~less(comp, e, t[j])})
        IN SubSeq(t, 1, k) \o <<e>> \o SubSeq(t, k + 1, Len(t))
      sorted[n \in lo - 1 .. Len(v)] ==
        IF n = lo - 1 THEN <<>> ELSE insert(sorted[n - 1], v[n])
  IN SubSeq(v, 1, lo - 1) \o sorted[Len(v)]

Reverse(v) == [k \in 1 .. Len(v) |-> v[Len(v) + 1 - k]]

Front(v) == SubSeq(v, 1, Len(v) - 1)

Range(v) == {v[k] : k \in 1 .. Len(v)}

----------------------------------------------------------------------------
\* Inputs: vectors of distinct points, no three of them collinear

Distinct(u) ==
  \A j \in 1 .. Len(u) - 1 : \A k \in j + 1 .. Len(u) : u[j] # u[k]

GeneralPosition(u) ==
  \A j \in 1 .. Len(u) - 2 :
    \A k \in j + 1 .. Len(u) - 1 :
      \A l \in k + 1 .. Len(u) : ccw(u[j], u[k], u[l]) # 0

\* u is a valid input: 3 .. MaxPoints points of the grid, in any order.
ValidInput(u) ==
  /\ \E n \in 3 .. MaxPoints : u \in [1 .. n -> Points]
  /\ Distinct(u)
  /\ GeneralPosition(u)

----------------------------------------------------------------------------
\* giftWrapping (index scan), the whole function

\* nextHullIdx without the replacement of a first candidate that is v[hIdx].
nextHullIdx_noFirstRule(u, hIdx) ==
  LET endIdx[i \in 1 .. Len(u)] ==
        IF i = 1 THEN 1
        ELSE LET prev == endIdx[i - 1]
             IN IF ccwSorter(u[hIdx], u[prev], u[i]) THEN i ELSE prev
  IN endIdx[Len(u)]

\* The inner for loop: the index of the input point farthest clockwise from
\* v[hIdx], the first candidate replaced unconditionally when it is v[hIdx].
nextHullIdx(u, hIdx) ==
  LET endIdx[i \in 1 .. Len(u)] ==
        IF i = 1 THEN 1
        ELSE LET prev == endIdx[i - 1]
             IN IF prev = hIdx \/ ccwSorter(u[hIdx], u[prev], u[i]) THEN i ELSE prev
  IN endIdx[Len(u)]

\* The do-while loop from the state (hIdx, h) on.
RECURSIVE gwLoop(_, _, _, _)
gwLoop(u, startIdx, hIdx, h) ==
  LET pushed == Append(h, u[hIdx])
      endIdx == nextHullIdx(u, hIdx)
  IN IF endIdx # startIdx THEN gwLoop(u, startIdx, endIdx, pushed) ELSE pushed

giftWrapping(u) ==
  LET startIdx == min_element(u, 1, isLeftOfComp)
  IN gwLoop(u, startIdx, startIdx, <<>>)

----------------------------------------------------------------------------
\* GrahamScan, the whole function

\* The result of a call whose behaviour is undefined.
Undefined == <<>>

\* The pivot at the front, the rest sorted about it.
gsSorted(u) ==
  LET swapped == swap(u, 1, min_element(u, 1, isLeftOfComp))
  IN sort(swapped, 2, ccwSorterComp(swapped[1]))

\* The inner while loop, which does not test the size of the stack: the result
\* has fewer than 2 points exactly when the loop reads below the bottom.
RECURSIVE gsPop(_, _)
gsPop(st, p) ==
  IF Len(st) < 2 THEN st
  ELSE IF ccw(st[Len(st) - 1], st[Len(st)], p) >= 0 THEN gsPop(Front(st), p)
  ELSE st

GrahamScan(u) ==
  LET sorted == gsSorted(u)
      st[n \in 3 .. Len(u)] ==
        IF n = 3 THEN <<sorted[1], sorted[2], sorted[3]>>
        ELSE LET prev == st[n - 1]
                 popped == gsPop(prev, sorted[n])
             IN IF prev = Undefined \/ Len(popped) < 2
                THEN Undefined
                ELSE Append(popped, sorted[n])
  IN st[Len(u)]

----------------------------------------------------------------------------
\* monotoneChain, the whole function

\* popConvex with an if for the while: at most one pop.
popConvex_once(st, p) ==
  IF Len(st) >= 2 /\ ccw(st[Len(st) - 1], st[Len(st)], p) >= 0
  THEN Front(st)
  ELSE st

\* The inner while loop of either scan: pop while the two topmost points and p
\* do not turn strictly clockwise.
RECURSIVE popConvex(_, _)
popConvex(st, p) ==
  IF Len(st) >= 2 /\ ccw(st[Len(st) - 1], st[Len(st)], p) >= 0
  THEN popConvex(Front(st), p)
  ELSE st

\* One scan over u: for every point, pop, then push.
chain(u) ==
  LET st[n \in 0 .. Len(u)] ==
        IF n = 0 THEN <<>> ELSE Append(popConvex(st[n - 1], u[n]), u[n])
  IN st[Len(u)]

monotoneChain(u) ==
  LET sorted == sort(u, 1, isLeftOfComp)
      lower == chain(sorted)
      upper == chain(Reverse(sorted))
  IN lower \o SubSeq(upper, 2, Len(upper) - 1)

----------------------------------------------------------------------------
\* quickHull, the whole function

\* The points of u strictly left of segment (a, b), in u's order.
leftOf(u, a, b) == SelectSeq(u, LAMBDA p : ccw(a, b, p) > 0)

\* The points of u not strictly left of segment (a, b), in u's order.
notLeftOf(u, a, b) == SelectSeq(u, LAMBDA p : ~(ccw(a, b, p) > 0))

\* The recursive helper: the points it appends to hull, in order, each with
\* the segment (a, b) of the call that appends it.
RECURSIVE quickHullRec(_, _, _)
quickHullRec(u, a, b) ==
  IF u = <<>> THEN <<>>
  ELSE LET f == u[getFarthest(a, b, u)]
       IN quickHullRec(leftOf(u, a, f), a, f)
            \o <<[a |-> a, b |-> b, f |-> f]>>
            \o quickHullRec(leftOf(u, f, b), f, b)

\* The appends of the two top level calls of the helper.
quickHullAppends(u) ==
  LET a == u[min_element(u, 1, isLeftOfComp)]
      b == u[max_element(u, isLeftOfComp)]
  IN [top |-> quickHullRec(leftOf(u, a, b), a, b),
      bottom |-> quickHullRec(notLeftOf(u, a, b), b, a)]

\* The points appended, without their segments.
appended(log) == [k \in 1 .. Len(log) |-> log[k].f]

\* The hull vector after the calls whose appends are log.
quickHullResult(u, log) ==
  LET a == u[min_element(u, 1, isLeftOfComp)]
      b == u[max_element(u, isLeftOfComp)]
  IN <<a>> \o appended(log.top) \o <<b>> \o appended(log.bottom)

quickHull(u) == quickHullResult(u, quickHullAppends(u))

----------------------------------------------------------------------------
\* State

VARIABLES
  v,        \* main: the point vector handed to the algorithms
  pc,       \* position in main, or in the one function run step by step
  out,      \* main: the hull returned by each algorithm
  appends,  \* the appends the quickHull helper made during the last call
  w,        \* step by step: the function's own copy of its by-value argument
  hull,     \* step by step: the function's hull vector
  idx,      \* step by step: giftWrapping's hIdx, GrahamScan's iterator it
  start,    \* step by step: giftWrapping's startIdx
  round,    \* 1: main's run on the input; 2: one algorithm re-run on its own hull
  sel,      \* round 2: the algorithm re-run
  first     \* round 2: the hull that algorithm returned in round 1

vars == <<v, pc, out, appends, w, hull, idx, start, round, sel, first>>

Algorithms == {"quickHull", "giftWrapping", "monotoneChain", "GrahamScan"}

\* The state in which the function named by p is about to be called on an input.
Start(p) ==
  /\ ValidInput(v)
  /\ pc = p
  /\ out = [alg \in Algorithms |-> <<>>]
  /\ appends = [top |-> <<>>, bottom |-> <<>>]
  /\ w = <<>>
  /\ hull = <<>>
  /\ idx = 0
  /\ start = 0
  /\ round = 1
  /\ sel = "none"
  /\ first = <<>>

----------------------------------------------------------------------------
\* main: quickHull, giftWrapping, monotoneChain, GrahamScan, in this order

AfterCall(alg) ==
  IF round = 2 THEN "done"
  ELSE CASE alg = "quickHull" -> "call_giftWrapping"
         [] alg = "giftWrapping" -> "call_monotoneChain"
         [] alg = "monotoneChain" -> "call_GrahamScan"
         [] alg = "GrahamScan" -> "done"

Init == Start("call_quickHull")

CallQuickHull ==
  /\ pc = "call_quickHull"
  /\ appends' = quickHullAppends(v)
  /\ out' = [out EXCEPT !["quickHull"] = quickHullResult(v, appends')]
  /\ pc' = AfterCall("quickHull")
  /\ UNCHANGED <<v, w, hull, idx, start, round, sel, first>>

CallGiftWrapping ==
  /\ pc = "call_giftWrapping"
  /\ out' = [out EXCEPT !["giftWrapping"] = giftWrapping(v)]
  /\ pc' = AfterCall("giftWrapping")
  /\ UNCHANGED <<v, appends, w, hull, idx, start, round, sel, first>>

CallMonotoneChain ==
  /\ pc = "call_monotoneChain"
  /\ out' = [out EXCEPT !["monotoneChain"] = monotoneChain(v)]
  /\ pc' = AfterCall("monotoneChain")
  /\ UNCHANGED <<v, appends, w, hull, idx, start, round, sel, first>>

\* A scan that reads below the bottom of its stack leaves the program in an
\* undefined state, of which nothing more is modelled.
CallGrahamScan ==
  /\ pc = "call_GrahamScan"
  /\ LET h == GrahamScan(v)
     IN IF h = Undefined
        THEN /\ pc' = "undefined"
             /\ out' = out
        ELSE /\ pc' = AfterCall("GrahamScan")
             /\ out' = [out EXCEPT !["GrahamScan"] = h]
  /\ UNCHANGED <<v, appends, w, hull, idx, start, round, sel, first>>

Next == CallQuickHull \/ CallGiftWrapping \/ CallMonotoneChain \/ CallGrahamScan

Spec == Init /\ [][Next]_vars

----------------------------------------------------------------------------
\* main, then one algorithm again on the vertices of the hull it returned

\* The distinct points of u, in order of first occurrence.
Vertices(u) ==
  LET firsts == {k \in 1 .. Len(u) : \A j \in 1 .. k - 1 : u[j] # u[k]}
      nth[n \in 1 .. Cardinality(firsts)] ==
        CHOOSE k \in firsts : Cardinality({j \in firsts : j < k}) = n - 1
  IN [n \in 1 .. Cardinality(firsts) |-> u[nth[n]]]

Refeed ==
  /\ pc = "done"
  /\ round = 1
  /\ \E alg \in Algorithms :
       /\ sel' = alg
       /\ first' = out[alg]
       /\ v' = Vertices(out[alg])
       /\ pc' = "call_" \o alg
  /\ round' = 2
  /\ UNCHANGED <<out, appends, w, hull, idx, start>>

NextRefeed == Next \/ Refeed

SpecRefeed == Init /\ [][NextRefeed]_vars

----------------------------------------------------------------------------
\* giftWrapping (index scan) step by step

InitGiftWrapping == Start("call_giftWrapping")

GwBegin ==
  /\ pc = "call_giftWrapping"
  /\ start' = min_element(v, 1, isLeftOfComp)
  /\ idx' = start'
  /\ hull' = <<>>
  /\ pc' = "gw_loop"
  /\ UNCHANGED <<v, out, appends, w, round, sel, first>>

\* One pass of the do-while body and its loop test.
GwIter ==
  /\ pc = "gw_loop"
  /\ hull' = Append(hull, v[idx])
  /\ idx' = nextHullIdx(v, idx)
  /\ pc' = IF idx' # start THEN "gw_loop" ELSE "gw_return"
  /\ UNCHANGED <<v, out, appends, w, start, round, sel, first>>

GwReturn ==
  /\ pc = "gw_return"
  /\ out' = [out EXCEPT !["giftWrapping"] = hull]
  /\ pc' = "done"
  /\ UNCHANGED <<v, appends, w, hull, idx, start, round, sel, first>>

NextGiftWrapping == GwBegin \/ GwIter \/ GwReturn

SpecGiftWrapping == InitGiftWrapping /\ [][NextGiftWrapping]_vars

----------------------------------------------------------------------------
\* GrahamScan step by step

InitGrahamScan == Start("call_GrahamScan")

GsBegin ==
  /\ pc = "call_GrahamScan"
  /\ w' = gsSorted(v)
  /\ hull' = <<w'[1], w'[2], w'[3]>>
  /\ idx' = 4
  /\ pc' = IF idx' > Len(w') THEN "gs_return" ELSE "gs_inner"
  /\ UNCHANGED <<v, out, appends, start, round, sel, first>>

\* One evaluation of the inner while condition, with the pop it guards or, when
\* it fails, the push and the outer loop test.  Reading below the bottom of the
\* stack is undefined: the value read is then any point.
GsInner ==
  /\ pc = "gs_inner"
  /\ \E g \in (IF Len(hull) >= 2 THEN {w[idx]} ELSE Points) :
       LET n == Len(hull)
           top == IF n >= 1 THEN hull[n] ELSE g
           below == IF n >= 2 THEN hull[n - 1] ELSE g
       IN IF ccw(below, top, w[idx]) >= 0
          THEN /\ hull' = IF n >= 1 THEN Front(hull) ELSE hull
               /\ idx' = idx
               /\ pc' = "gs_inner"
          ELSE /\ hull' = Append(hull, w[idx])
               /\ idx' = idx + 1
               /\ pc' = IF idx' > Len(w) THEN "gs_return" ELSE "gs_inner"
  /\ UNCHANGED <<v, out, appends, w, start, round, sel, first>>

GsReturn ==
  /\ pc = "gs_return"
  /\ out' = [out EXCEPT !["GrahamScan"] = hull]
  /\ pc' = "done"
  /\ UNCHANGED <<v, appends, w, hull, idx, start, round, sel, first>>

NextGrahamScan == GsBegin \/ GsInner \/ GsReturn

SpecGrahamScan == InitGrahamScan /\ [][NextGrahamScan]_vars

----------------------------------------------------------------------------
\* giftWrapping (swap based, the file's second definition) step by step

InitSwap == Start("call_giftWrapping")

SwBegin ==
  /\ pc = "call_giftWrapping"
  /\ w' = swap(v, 1, min_element(v, 1, isLeftOfComp))
  /\ hull' = <<>>
  /\ pc' = "sw_loop"
  /\ UNCHANGED <<v, out, appends, idx, start, round, sel, first>>

\* One pass of the do-while body and its loop test.
SwIter ==
  /\ pc = "sw_loop"
  /\ hull' = Append(hull, w[1])
  /\ w' = swap(w, 1, min_element(w, 2, ccwSorterComp(w[1])))
  /\ pc' = IF w'[1].x # hull'[1].x /\ w'[1].y # hull'[1].y
           THEN "sw_loop"
           ELSE "sw_return"
  /\ UNCHANGED <<v, out, appends, idx, start, round, sel, first>>

SwReturn ==
  /\ pc = "sw_return"
  /\ out' = [out EXCEPT !["giftWrapping"] = hull]
  /\ pc' = "done"
  /\ UNCHANGED <<v, appends, w, hull, idx, start, round, sel, first>>

NextSwap == SwBegin \/ SwIter \/ SwReturn

SpecSwap == InitSwap /\ [][NextSwap]_vars

----------------------------------------------------------------------------
\* Vocabulary of the properties

\* The successor of position k in h read cyclically.
Succ(h, k) == (k % Len(h)) + 1

\* h turns strictly left at every vertex when read cyclically.
TurnsLeft(h) ==
  \A k \in 1 .. Len(h) : ccw(h[k], h[Succ(h, k)], h[Succ(h, Succ(h, k))]) > 0

\* p is inside or on the polygon h: on the same side of every edge, or on it.
InsideOrOn(p, h) ==
  LET side == {ccw(h[k], h[Succ(h, k)], p) : k \in 1 .. Len(h)}
  IN /\ Len(h) >= 3
     /\ \/ \A c \in side : c >= 0
        \/ \A c \in side : c <= 0

\* The extreme points of the set S: those with a line through them and another
\* point of S that has every other point of S strictly on one side.
Extreme(S) ==
  {p \in S : \E q \in S \ {p} : \A r \in S \ {p, q} : ccw(p, q, r) > 0}

\* g is h rotated.
IsRotation(g, h) ==
  /\ Len(g) = Len(h)
  /\ \E r \in 0 .. Len(h) - 1 :
       \A k \in 1 .. Len(h) : g[k] = h[((k - 1 + r) % Len(h)) + 1]

\* The step by step models return what the whole-function operators return.
GwAgrees == pc = "gw_return" => hull = giftWrapping(v)

GsAgrees == pc = "gs_return" => hull = GrahamScan(v)

----------------------------------------------------------------------------
\* C1: every input point lies inside or on the polygon each algorithm returns.
C1_AllPointsInsideOrOn ==
  /\ pc # "undefined"
  /\ pc = "done" =>
       \A alg \in Algorithms : \A p \in Range(v) : InsideOrOn(p, out[alg])

C1_Witness ==
  /\ pc = "done"
  /\ \E p \in Range(v) : \A alg \in Algorithms : p \notin Range(out[alg])

\* C2: every returned hull turns strictly left at every vertex, read cyclically.
C2_StrictlyLeftTurning ==
  pc = "done" => \A alg \in Algorithms : TurnsLeft(out[alg])

\* C3: the points of every returned hull are exactly the extreme points of the input.
C3_ExactlyTheExtremePoints ==
  /\ pc # "undefined"
  /\ pc = "done" =>
       LET extreme == Extreme(Range(v))
       IN \A alg \in Algorithms : Range(out[alg]) = extreme

C3_Witness ==
  /\ pc = "done"
  /\ Cardinality(Extreme(Range(v))) < Len(v)
  /\ Cardinality(Range(out["monotoneChain"])) = 3

\* C4: the four returned hulls are equal up to rotation.
C4_SameCyclicSequence ==
  pc = "done" =>
    \A alg1, alg2 \in Algorithms : IsRotation(out[alg1], out[alg2])

\* C5: on 3 points every algorithm returns exactly these 3 points, each once.
C5_TriangleIsItsOwnHull ==
  (pc = "done" /\ Len(v) = 3) =>
    \A alg \in Algorithms : Len(out[alg]) = 3 /\ Range(out[alg]) = Range(v)

\* C6: an algorithm run on the vertices of the hull it returned returns that hull.
C6_Idempotent ==
  (pc = "done" /\ round = 2) => out[sel] = first

\* C7: every point the recursive helper appends is strictly left of its bounding
\* segment, so it is neither end of the top segment, and quickHull returns its
\* two end points and no point twice.
C7_AppendedStrictlyLeft ==
  out["quickHull"] # <<>> =>
    LET a == v[min_element(v, 1, isLeftOfComp)]
        b == v[max_element(v, isLeftOfComp)]
    IN /\ \A e \in Range(appends.top \o appends.bottom) :
            ccw(e.a, e.b, e.f) > 0 /\ e.f \notin {a, b}
       /\ {a, b} \subseteq Range(out["quickHull"])
       /\ Distinct(out["quickHull"])

\* C8: the index scan giftWrapping starts at the smallest point, selects at each
\* iteration a point with no input point strictly right of the segment to it,
\* selects no point but the start twice, and exits after as many iterations as
\* there are hull vertices.
C8_GiftWrappingTerminates ==
  (pc \in {"gw_loop", "gw_return"} /\ hull # <<>>) =>
    LET p == hull[Len(hull)]
        q == v[idx]
        h == Cardinality(Extreme(Range(v)))
    IN /\ \A r \in Range(v) \ {p, q} : ccw(p, q, r) >= 0
       /\ \A r \in Range(v) \ {hull[1]} : isLeftOf(hull[1], r)
       /\ Distinct(hull)
       /\ q \in Range(hull) => q = hull[1]
       /\ Len(hull) <= h
       /\ (pc = "gw_return") = (q = hull[1])
       /\ pc = "gw_return" => Len(hull) = h

C8_Witness ==
  /\ pc = "gw_return"
  /\ Len(hull) = 3
  /\ Len(v) = 4

\* C9: the swap based giftWrapping leaves its loop only with the start point
\* back at the front, and then its hull holds every hull vertex.
C9_StopsOnlyAtStart ==
  pc = "sw_return" =>
    /\ w[1] = hull[1]
    /\ Extreme(Range(v)) \subseteq Range(hull)

\* C10: whenever GrahamScan evaluates its inner loop condition the stack holds at
\* least 2 points, the pivot and the first sorted point at the bottom.
C10_StackNeverBelowTwo ==
  pc \in {"gs_inner", "gs_return"} =>
    /\ Len(hull) >= 2
    /\ hull[1] = w[1]
    /\ hull[2] = w[2]

C10_Witness ==
  /\ pc = "gs_inner"
  /\ Len(hull) = 2

====
